---- MODULE Spec2Model ----
(***************************************************************************)
(* Model of the tracker of src/track.py: Detection, Track, the three-stage *)
(* matcher (_match_detections_single_timestep, match_detections) and the   *)
(* frame loop of track().                                                  *)
(*                                                                         *)
(* Numbers.  Scores are integers in hundredths (0.7 is 70).  The other     *)
(* thresholds and the mask IoU are exact rationals <<numerator,            *)
(* denominator>> with a positive denominator, compared by cross            *)
(* multiplication.  A mask is the set of its pixels; a Track object is     *)
(* referred to by its position in all_tracks (every Track is appended to   *)
(* all_tracks when it is constructed), None is 0.                          *)
(***************************************************************************)
EXTENDS Integers, Sequences, FiniteSets

VARIABLES
    all_tracks,      \* track(): all_tracks, a list of Track objects
    current_tracks,  \* track(): current_tracks, the active set (list of refs)
    track_id,        \* track(): the next track identity
    timestamp,       \* track(): index of the next frame of the loop
    tracking_params, \* the tracking_params dict
    image_results,   \* the record of the frame processed last
    detections,      \* track(): detections built from that record
    matched_tracks,  \* track(): what match_detections returned for them
    num_read,        \* number of predictions read so far (bounds the input)
    frame_numbers,   \* main(): the frame numbers given to output_mot_tracks
    output_str,      \* output_mot_tracks(): the lines written to the file
    pc               \* "loop": in the frame loop, "done": returned,
                     \* "written": the track file is written,
                     \* "TypeError", "AssertionError": the exception
                     \* that left track() or output_mot_tracks()

vars == <<all_tracks, current_tracks, track_id, timestamp, tracking_params,
          image_results, detections, matched_tracks, num_read,
          frame_numbers, output_str, pc>>

\* -------------------------------------------------------------- bounds
\* frames and predictions (over all frames) of the matching specification
MaxFrames == 3
MaxPredictions == 4
\* of the lifecycle specification
LifeFrames == 5
LifePredictions == 3
\* of the score specification
ScoreFrames == 3
ScorePredictions == 3
\* the gate specification
GateFrames == 3
GatePredictions == 3
\* the pass-order specification
OrderFrames == 3
OrderPredictions == 4
\* the frame-record specification
RecordFrames == 2
RecordPredictions == 2
\* the single-object specification
ScenarioFrames == 4
\* frames, predictions and largest mask area of the area specification
AreaFrames == 2
AreaPredictions == 3
MaxArea == 4
\* frames and predictions of the stage specification
StageFrames == 2
StagePredictions == 4
\* the track-file specification: frames of the sequence, tracks returned
MotFrames == 7
MotTracks == 2

\* -------------------------------------------------------------- helpers
None == 0

\* no exception was raised
NoError == "none"

Abs(x) == IF x < 0 THEN -x ELSE x

Last(s) == s[Len(s)]

Range(s) == {s[i] : i \in 1..Len(s)}

\* the list f[1], ..., f[n] of a function f on 1..n, as a sequence value
List(f, n) == SubSeq(f, 1, n)

SeqsUpTo(S, n) == UNION {[1..k -> S] : k \in 0..n}

\* a > b for rationals a = <<n, d>>, b = <<n, d>>, d > 0
RatGt(a, b) == a[1] * b[2] > b[1] * a[2]

RatGe(a, b) == a[1] * b[2] >= b[1] * a[2]

\* a - b
RatSub(a, b) == <<a[1] * b[2] - b[1] * a[2], a[2] * b[2]>>

\* Python's sorted(): the stable sort of s, x placed before y when
\* <<x, y>> \in before (a set of pairs of elements of s); elements
\* neither before the other keep their order in s.
StableSort(s, before) ==
    LET n == Len(s)
        rank(i) == Cardinality({j \in 1..n :
                       \/ <<s[j], s[i]>> \in before
                       \/ (<<s[i], s[j]>> \notin before /\ j < i)})
    IN  List([p \in 1..n |-> s[CHOOSE i \in 1..n : rank(i) = p - 1]], n)

\* ------------------------------------------------------------ the image
\* shape of the frame image (rows, columns); diagonal 10
ImageShape == <<6, 8>>

\* ------------------------------------------------------------ Detection
Detection(box, score, label, ts, mask, mask_feature) ==
    [box |-> box, score |-> score, label |-> label, timestamp |-> ts,
     mask |-> mask, mask_feature |-> mask_feature, track |-> None,
     obj |-> None]

\* the detection built from the i-th kept prediction of its frame: obj, with
\* the timestamp, tells the Detection objects of a run apart
NewDetection(d, i) == [d EXCEPT !.obj = i]

\* the identity of the Detection object
object_id(d) == <<d.timestamp, d.obj>>

\* twice the box centre: ((x0 + x1) / 2, (y0 + y1) / 2) without the halves
compute_center_box2(d) == <<d.box[1] + d.box[3], d.box[2] + d.box[4]>>

\* m00 of the decoded 0/1 mask: its number of set pixels
compute_area(d) == Cardinality(d.mask)

\* intersection over union of the two masks
mask_iou(d, e) ==
    <<Cardinality(d.mask \cap e.mask), Cardinality(d.mask \cup e.mask)>>

\* chi-square distance of the histograms, or cosine distance of the mask
\* features: an abstract feature value, distance 0 between equal values
appearance_distance(d, e) == Abs(d.mask_feature - e.mask_feature)

\* ---------------------------------------------------------------- Track
Track(id) == [id |-> id, detections |-> <<>>]

\* add_detection without the assignment to detection.track
add_detection_no_backref(T, ref, d) ==
    [T EXCEPT ![ref].detections = Append(@, d)]

add_detection(T, ref, d) ==
    [T EXCEPT ![ref].detections = Append(@, [d EXCEPT !.track = ref])]

last_timestamp(trk) ==
    IF trk.detections # <<>> THEN Last(trk.detections).timestamp ELSE None

\* track_distance(track, detection) > spatial_dist_max, squared on both
\* sides: (dx^2 + dy^2) / diagonal^2 > spatial_dist_max^2
too_far(trk, d, params) ==
    LET p == compute_center_box2(Last(trk.detections))
        c == compute_center_box2(d)
        diff2 == (p[1] - c[1]) * (p[1] - c[1]) + (p[2] - c[2]) * (p[2] - c[2])
        diag2 == ImageShape[1] * ImageShape[1] + ImageShape[2] * ImageShape[2]
        m == params.spatial_dist_max
    IN  diff2 * m[2] * m[2] > 4 * m[1] * m[1] * diag2

\* ----------------------------------- _match_detections_single_timestep
\* indices of the detections by descending score (stable)
sorted_indices(dets) ==
    StableSort(List([i \in 1..Len(dets) |-> i], Len(dets)),
               {<<a, b>> \in (1..Len(dets)) \X (1..Len(dets)) :
                    dets[a].score > dets[b].score})

\* a value of the candidates dict: a list of detection indices, or the
\* integer 0 that stage 1 stores for a track whose last mask is empty
\* (iterable = FALSE: iterating it raises TypeError)
CandList(items) == [iterable |-> TRUE, items |-> items]

CandZero == [iterable |-> FALSE, items |-> <<>>]

\* area_ok without the test of track_area / area
area_ok_one_sided(track_area, area, params) ==
    /\ area > 0
    /\ area * params.area_ratio[2] > params.area_ratio[1] * track_area

\* area_ok with the bounds of the interval included
area_ok_at_bound(track_area, area, params) ==
    /\ area > 0
    /\ area * params.area_ratio[2] >= params.area_ratio[1] * track_area
    /\ track_area * params.area_ratio[2] >= params.area_ratio[1] * area

\* the area test of stage 1: area > 0, area / track_area > area_ratio and
\* track_area / area > area_ratio
area_ok(track_area, area, params) ==
    /\ area > 0
    /\ area * params.area_ratio[2] > params.area_ratio[1] * track_area
    /\ track_area * params.area_ratio[2] > params.area_ratio[1] * area

\* stage 1, one track: keep candidates with similar areas only
Stage1Track(T, ref, dets, params, candidates) ==
    LET trk == T[ref]
        track_area == compute_area(Last(trk.detections))
    IN  IF track_area = 0
        THEN [candidates EXCEPT ![trk.id] = CandZero]
        ELSE [candidates EXCEPT ![trk.id] = CandList(
                 SelectSeq(@.items,
                     LAMBDA i : area_ok(track_area, compute_area(dets[i]),
                                        params)))]

RECURSIVE Stage1(_, _, _, _, _, _)
Stage1(T, tracks, dets, params, candidates, k) ==
    IF k > Len(tracks) THEN candidates
    ELSE Stage1(T, tracks, dets, params,
                Stage1Track(T, tracks[k], dets, params, candidates), k + 1)

different_label(track_detection, d, params) ==
    IF params.ignore_labels THEN FALSE
    ELSE track_detection.label # d.label

\* stage2_survivors on the claims of the start of the stage, when no
\* detection is matched
stage2_survivors_snapshot(T, ref, dets, params, st) ==
    LET trk == T[ref]
        track_detection == Last(trk.detections)
    IN  SelectSeq(st.candidates[trk.id].items,
            LAMBDA i : ~(\/ different_label(track_detection, dets[i], params)
                         \/ too_far(trk, dets[i], params)))

\* the candidates of a track that pass the filters of stage 2, in
\* candidate order (the keys of track_ious)
stage2_survivors(T, ref, dets, params, st) ==
    LET trk == T[ref]
        track_detection == Last(trk.detections)
    IN  SelectSeq(st.candidates[trk.id].items,
            LAMBDA i : ~(\/ st.matched[i] # None
                         \/ different_label(track_detection, dets[i], params)
                         \/ too_far(trk, dets[i], params)))

\* the decision of stage 2 on the sorted IoUs: commit the best candidate
stage2_commits(best_iou, second_best_iou, params) ==
    RatGt(RatSub(best_iou, second_best_iou), params.iou_gap_min)

\* Stage2Track without the reset of the track's candidates after a commit
Stage2Track_keeps_candidates(T, ref, dets, params, st) ==
    LET trk == T[ref]
        track_detection == Last(trk.detections)
        survivors == stage2_survivors(T, ref, dets, params, st)
        iou(i) == mask_iou(track_detection, dets[i])
        sorted_ious == StableSort(survivors,
                           {<<a, b>> \in Range(survivors) \X Range(survivors) :
                                RatGt(iou(a), iou(b))})
        best_index == sorted_ious[1]
        second_best_iou ==
            IF Len(sorted_ious) > 1 THEN iou(sorted_ious[2]) ELSE <<0, 1>>
    IN  IF st.err # NoError THEN st
        ELSE IF ~st.candidates[trk.id].iterable
        THEN [st EXCEPT !.err = "TypeError"]
        ELSE IF survivors = <<>> THEN st
        ELSE IF stage2_commits(iou(best_index), second_best_iou, params)
        THEN [st EXCEPT !.matched[best_index] = ref]
        ELSE [st EXCEPT !.candidates[trk.id] = CandList(
                 SelectSeq(sorted_ious,
                     LAMBDA i : RatGe(iou(i), params.iou_min)))]

\* stage 2, one track: match on good mask IoU
Stage2Track(T, ref, dets, params, st) ==
    LET trk == T[ref]
        track_detection == Last(trk.detections)
        survivors == stage2_survivors(T, ref, dets, params, st)
        iou(i) == mask_iou(track_detection, dets[i])
        sorted_ious == StableSort(survivors,
                           {<<a, b>> \in Range(survivors) \X Range(survivors) :
                                RatGt(iou(a), iou(b))})
        best_index == sorted_ious[1]
        second_best_iou ==
            IF Len(sorted_ious) > 1 THEN iou(sorted_ious[2]) ELSE <<0, 1>>
    IN  IF st.err # NoError THEN st
        ELSE IF ~st.candidates[trk.id].iterable
        THEN [st EXCEPT !.err = "TypeError"]
        ELSE IF survivors = <<>> THEN st
        ELSE IF stage2_commits(iou(best_index), second_best_iou, params)
        THEN [st EXCEPT !.matched[best_index] = ref,
                        !.candidates[trk.id] = CandList(<<>>)]
        ELSE [st EXCEPT !.candidates[trk.id] = CandList(
                 SelectSeq(sorted_ious,
                     LAMBDA i : RatGe(iou(i), params.iou_min)))]

RECURSIVE Stage2(_, _, _, _, _, _)
Stage2(T, tracks, dets, params, st, k) ==
    IF k > Len(tracks) THEN st
    ELSE Stage2(T, tracks, dets, params,
                Stage2Track(T, tracks[k], dets, params, st), k + 1)

\* Stage3Track with a second-best distance of 0 for a single candidate
Stage3Track_second_zero(T, ref, dets, params, st) ==
    LET trk == T[ref]
        track_detection == Last(trk.detections)
        cands == SelectSeq(st.candidates[trk.id].items,
                     LAMBDA i : st.matched[i] = None)
        dist(i) == appearance_distance(track_detection, dets[i])
        sorted_distances == StableSort(cands,
                                {<<a, b>> \in Range(cands) \X Range(cands) :
                                     dist(a) < dist(b)})
        best_match == sorted_distances[1]
        second_best_distance ==
            IF Len(sorted_distances) = 1 THEN 0
            ELSE dist(sorted_distances[2])
        gap_ok == second_best_distance - dist(best_match)
                      > params.appearance_gap
    IN  IF st.err # NoError THEN st
        ELSE IF cands = <<>>
        THEN [st EXCEPT !.candidates[trk.id] = CandList(cands)]
        ELSE IF gap_ok
        THEN [st EXCEPT !.matched[best_match] = ref,
                        !.candidates[trk.id] = CandList(<<>>)]
        ELSE [st EXCEPT !.candidates[trk.id] = CandList(cands)]

\* stage 3, one track: match on the appearance distance
Stage3Track(T, ref, dets, params, st) ==
    LET trk == T[ref]
        track_detection == Last(trk.detections)
        cands == SelectSeq(st.candidates[trk.id].items,
                     LAMBDA i : st.matched[i] = None)
        dist(i) == appearance_distance(track_detection, dets[i])
        sorted_distances == StableSort(cands,
                                {<<a, b>> \in Range(cands) \X Range(cands) :
                                     dist(a) < dist(b)})
        best_match == sorted_distances[1]
        \* second_best_distance is infinite when there is one candidate
        gap_ok == \/ Len(sorted_distances) = 1
                  \/ dist(sorted_distances[2]) - dist(best_match)
                         > params.appearance_gap
    IN  IF st.err # NoError THEN st
        ELSE IF cands = <<>>
        THEN [st EXCEPT !.candidates[trk.id] = CandList(cands)]
        ELSE IF gap_ok
        THEN [st EXCEPT !.matched[best_match] = ref,
                        !.candidates[trk.id] = CandList(<<>>)]
        ELSE [st EXCEPT !.candidates[trk.id] = CandList(cands)]

RECURSIVE Stage3(_, _, _, _, _, _)
Stage3(T, tracks, dets, params, st, k) ==
    IF k > Len(tracks) THEN st
    ELSE Stage3(T, tracks, dets, params,
                Stage3Track(T, tracks[k], dets, params, st), k + 1)

\* matched_tracks and candidates as stage 1 leaves them: nothing is matched,
\* and every track has the detections of similar area, best score first
after_stage1(T, tracks, dets, params) ==
    LET ids == {T[tracks[k]].id : k \in 1..Len(tracks)}
    IN  [matched |-> List([i \in 1..Len(dets) |-> None], Len(dets)),
         candidates |->
             Stage1(T, tracks, dets, params,
                    [id \in ids |-> CandList(sorted_indices(dets))], 1),
         err |-> NoError]

\* a matcher that commits nothing
_match_nothing(T, tracks, dets, params) ==
    [err |-> NoError, matched |-> List([i \in 1..Len(dets) |-> None], Len(dets))]

\* the result: err names the exception the pass raised, if any; else the list
\* matched_tracks with one entry (a track or None) per detection
_match_detections_single_timestep(T, tracks, dets, params) ==
    LET st0 == after_stage1(T, tracks, dets, params)
        st2 == Stage2(T, tracks, dets, params, st0, 1)
        st3 == Stage3(T, tracks, dets, params, st2, 1)
    IN  [err |-> st3.err, matched |-> st3.matched]

\* ----------------------------------------------------- match_detections
\* the merge of one pass into matched_tracks: st holds matched (the
\* overall list), new_unmatched and err (the assertion of the merge failed)
RECURSIVE MergePass(_, _, _, _)
MergePass(single, unmatched, st, i) ==
    IF i > Len(single) THEN st
    ELSE LET detection_index == unmatched[i]
         IN  IF single[i] # None
             THEN IF st.matched[detection_index] # None
                  THEN [st EXCEPT !.err = "AssertionError"]
                  ELSE MergePass(single, unmatched,
                           [st EXCEPT !.matched[detection_index] = single[i]],
                           i + 1)
             ELSE MergePass(single, unmatched,
                      [st EXCEPT !.new_unmatched = Append(@, detection_index)],
                      i + 1)

\* merge_pass without the update of unmatched_detection_indices: the next
\* pass is offered every detection the previous one was offered
merge_pass_keeps_unmatched(pass, st) ==
    IF pass.err # NoError THEN [st EXCEPT !.err = pass.err]
    ELSE LET merged == MergePass(pass.matched, st.unmatched,
                           [matched |-> st.matched, new_unmatched |-> <<>>,
                            err |-> NoError], 1)
         IN  [matched |-> merged.matched,
              unmatched |-> st.unmatched,
              err |-> merged.err]

\* the merge of a pass result into the state of the loop over timestamps
merge_pass(pass, st) ==
    IF pass.err # NoError THEN [st EXCEPT !.err = pass.err]
    ELSE LET merged == MergePass(pass.matched, st.unmatched,
                           [matched |-> st.matched, new_unmatched |-> <<>>,
                            err |-> NoError], 1)
         IN  [matched |-> merged.matched,
              unmatched |-> merged.new_unmatched,
              err |-> merged.err]

\* one pass: the tracks whose last timestamp is ts against the detections
\* still unmatched; st holds matched, unmatched
\* (unmatched_detection_indices) and err
match_pass(T, tracks, dets, params, ts, st) ==
    merge_pass(
        _match_detections_single_timestep(T,
            SelectSeq(tracks, LAMBDA r : last_timestamp(T[r]) = ts),
            List([i \in 1..Len(st.unmatched) |-> dets[st.unmatched[i]]],
                 Len(st.unmatched)),
            params),
        st)

\* the passes, one per timestamp of timestamps[k..]
RECURSIVE MatchPasses(_, _, _, _, _, _, _)
MatchPasses(T, tracks, dets, params, timestamps, st, k) ==
    IF st.err # NoError \/ k > Len(timestamps) THEN st
    ELSE MatchPasses(T, tracks, dets, params, timestamps,
             match_pass(T, tracks, dets, params, timestamps[k], st), k + 1)

\* the states of the loop over timestamps: before the pass of
\* timestamps[k], before each later pass, and after the last one
RECURSIVE PassStates(_, _, _, _, _, _, _)
PassStates(T, tracks, dets, params, timestamps, st, k) ==
    IF st.err # NoError \/ k > Len(timestamps) THEN <<st>>
    ELSE <<st>> \o
         PassStates(T, tracks, dets, params, timestamps,
             match_pass(T, tracks, dets, params, timestamps[k], st), k + 1)

\* timestamps of the tracks, most recent first
sorted_timestamps(T, tracks) ==
    LET keys == {last_timestamp(T[tracks[k]]) : k \in 1..Len(tracks)}
    IN  List([p \in 1..Cardinality(keys) |->
                 CHOOSE t \in keys : Cardinality({u \in keys : u > t}) = p - 1],
             Cardinality(keys))

\* match_detections on every track of T, the retired ones included
match_detections_all_tracks(T, tracks, dets, params) ==
    LET every == List([r \in 1..Len(T) |-> r], Len(T))
        st == MatchPasses(T, every, dets, params,
                  sorted_timestamps(T, every),
                  [matched |-> List([i \in 1..Len(dets) |-> None], Len(dets)),
                   unmatched |-> List([i \in 1..Len(dets) |-> i], Len(dets)),
                   err |-> NoError], 1)
    IN  [err |-> st.err, matched |-> st.matched]

\* [err, matched]: matched[i] is the track detection i is assigned to
match_detections(T, tracks, dets, params) ==
    LET st == MatchPasses(T, tracks, dets, params,
                  sorted_timestamps(T, tracks),
                  [matched |-> List([i \in 1..Len(dets) |-> None], Len(dets)),
                   unmatched |-> List([i \in 1..Len(dets) |-> i], Len(dets)),
                   err |-> NoError], 1)
    IN  [err |-> st.err, matched |-> st.matched]

\* ---------------------------------------------------------------- track
\* the shortest of the three lists of a frame record
zip_length(results) ==
    LET lens == {Len(results.boxes), Len(results.masks), Len(results.labels)}
    IN  CHOOSE n \in lens : \A m \in lens : n <= m

\* zip(boxes, masks, labels, mask_features): the tuples of the entries at
\* equal positions, as many as the shortest list has; a box is
\* (x0, y0, x1, y1, score), and the appearance goes with the mask
zip_record(results) ==
    List([i \in 1..zip_length(results) |->
             [box |-> results.boxes[i], mask |-> results.masks[i].mask,
              label |-> results.labels[i],
              feature |-> results.masks[i].mask_feature]],
         zip_length(results))

\* build_detections without the score filter
build_detections_unfiltered(results, ts, params) ==
    LET keep == zip_record(results)
    IN  List([i \in 1..Len(keep) |->
                 NewDetection(
                     Detection(SubSeq(keep[i].box, 1, 4), keep[i].box[5],
                               keep[i].label, ts, keep[i].mask,
                               keep[i].feature), i)], Len(keep))

\* build_detections with >= for >
build_detections_at_threshold(results, ts, params) ==
    LET keep == SelectSeq(zip_record(results),
                    LAMBDA r : r.box[5] >= params.score_continue_min)
    IN  List([i \in 1..Len(keep) |->
                 NewDetection(
                     Detection(SubSeq(keep[i].box, 1, 4), keep[i].box[5],
                               keep[i].label, ts, keep[i].mask,
                               keep[i].feature), i)], Len(keep))

\* the detections of a frame: one per tuple of the zip whose score passes
build_detections(results, ts, params) ==
    LET keep == SelectSeq(zip_record(results),
                    LAMBDA r : r.box[5] > params.score_continue_min)
    IN  List([i \in 1..Len(keep) |->
                 NewDetection(
                     Detection(SubSeq(keep[i].box, 1, 4), keep[i].box[5],
                               keep[i].label, ts, keep[i].mask,
                               keep[i].feature), i)], Len(keep))

\* starts_track with >= for >
starts_track_at_threshold(d, params) == d.score >= params.score_init_min

\* an unmatched detection starts a track
starts_track(d, params) == d.score > params.score_init_min

\* UpdateTracks with the new track left empty: the detection that starts
\* it is not added to it
RECURSIVE UpdateTracks_empty_birth(_, _, _, _, _)
UpdateTracks_empty_birth(dets, matched, params, st, i) ==
    IF i > Len(dets) THEN st
    ELSE IF matched[i] = None
    THEN IF dets[i].score > params.score_init_min
         THEN UpdateTracks_empty_birth(dets, matched, params,
                  [all_tracks |-> Append(st.all_tracks, Track(st.track_id)),
                   track_id |-> st.track_id + 1,
                   continued |-> Append(st.continued,
                                        Len(st.all_tracks) + 1)], i + 1)
         ELSE UpdateTracks_empty_birth(dets, matched, params, st, i + 1)
    ELSE UpdateTracks_empty_birth(dets, matched, params,
             [st EXCEPT !.all_tracks = add_detection(@, matched[i], dets[i]),
                        !.continued = Append(@, matched[i])], i + 1)

\* UpdateTracks without the increment of track_id
RECURSIVE UpdateTracks_same_id(_, _, _, _, _)
UpdateTracks_same_id(dets, matched, params, st, i) ==
    IF i > Len(dets) THEN st
    ELSE IF matched[i] = None
    THEN IF dets[i].score > params.score_init_min
         THEN UpdateTracks_same_id(dets, matched, params,
                  [all_tracks |->
                       add_detection(
                           Append(st.all_tracks, Track(st.track_id)),
                           Len(st.all_tracks) + 1, dets[i]),
                   track_id |-> st.track_id,
                   continued |-> Append(st.continued,
                                        Len(st.all_tracks) + 1)], i + 1)
         ELSE UpdateTracks_same_id(dets, matched, params, st, i + 1)
    ELSE UpdateTracks_same_id(dets, matched, params,
             [st EXCEPT !.all_tracks = add_detection(@, matched[i], dets[i]),
                        !.continued = Append(@, matched[i])], i + 1)

\* the loop over zip(detections, matched_tracks); st holds all_tracks,
\* track_id and continued (continued_tracks)
RECURSIVE UpdateTracks(_, _, _, _, _)
UpdateTracks(dets, matched, params, st, i) ==
    IF i > Len(dets) THEN st
    ELSE IF matched[i] = None
    THEN IF starts_track(dets[i], params)
         THEN LET ref == Len(st.all_tracks) + 1
              IN  UpdateTracks(dets, matched, params,
                      [all_tracks |->
                           add_detection(
                               Append(st.all_tracks, Track(st.track_id)),
                               ref, dets[i]),
                       track_id |-> st.track_id + 1,
                       continued |-> Append(st.continued, ref)], i + 1)
         ELSE UpdateTracks(dets, matched, params, st, i + 1)
    ELSE UpdateTracks(dets, matched, params,
             [st EXCEPT !.all_tracks = add_detection(@, matched[i], dets[i]),
                        !.continued = Append(@, matched[i])], i + 1)

\* keeps_skipped with the operands of the subtraction exchanged: the
\* frames elapsed since the last detection of the track
keeps_skipped_elapsed(trk, ts, params) ==
    (ts - last_timestamp(trk)) < params.frames_skip_max

\* the test that keeps an unmatched track in the active set
keeps_skipped(trk, ts, params) ==
    (last_timestamp(trk) - ts) < params.frames_skip_max

\* skipped_tracks without the test on continued_track_ids
skipped_tracks_with_continued(T, current, continued, ts, params) ==
    SelectSeq(current, LAMBDA r : keeps_skipped(T[r], ts, params))

\* the active tracks that got no detection in the frame and are kept
skipped_tracks(T, current, continued, ts, params) ==
    LET continued_track_ids == {T[continued[k]].id : k \in 1..Len(continued)}
    IN  SelectSeq(current,
            LAMBDA r : /\ T[r].id \notin continued_track_ids
                       /\ keeps_skipped(T[r], ts, params))

\* one iteration of the frame loop on the record results
ProcessFrame(results) ==
    LET dets == build_detections(results, timestamp, tracking_params)
        m == match_detections(all_tracks, current_tracks, dets,
                              tracking_params)
        upd == UpdateTracks(dets, m.matched, tracking_params,
                   [all_tracks |-> all_tracks, track_id |-> track_id,
                    continued |-> <<>>], 1)
    IN  /\ pc = "loop"
        /\ image_results' = results
        /\ num_read' = num_read + Len(results.boxes)
        /\ detections' = dets
        /\ UNCHANGED <<tracking_params, frame_numbers, output_str>>
        /\ IF m.err # NoError
           THEN /\ pc' = m.err
                /\ UNCHANGED <<all_tracks, current_tracks, track_id,
                               timestamp, matched_tracks>>
           ELSE /\ pc' = "loop"
                /\ matched_tracks' = m.matched
                /\ all_tracks' = upd.all_tracks
                /\ track_id' = upd.track_id
                /\ current_tracks' =
                       upd.continued \o
                       skipped_tracks(upd.all_tracks, current_tracks,
                                      upd.continued, timestamp,
                                      tracking_params)
                /\ timestamp' = timestamp + 1

\* the frame list is exhausted: track() returns all_tracks
Return ==
    /\ pc = "loop"
    /\ pc' = "done"
    /\ UNCHANGED <<all_tracks, current_tracks, track_id, timestamp,
                   tracking_params, image_results, detections,
                   matched_tracks, num_read, frame_numbers, output_str>>

\* detection d passes every gate of the matcher against the last detection
\* of trk: area ratio, label, distance and minimum IoU
passes_gates(trk, d, params) ==
    /\ area_ok(compute_area(Last(trk.detections)), compute_area(d), params)
    /\ ~different_label(Last(trk.detections), d, params)
    /\ ~too_far(trk, d, params)
    /\ RatGe(mask_iou(Last(trk.detections), d), params.iou_min)

\* ---------------------------------------------------- output_mot_tracks
\* is_long_enough with >= for >
is_long_enough_at_bound(trk) == Len(trk.detections) >= 4

is_long_enough(trk) == Len(trk.detections) > 4

is_person(trk, label_list) ==
    label_list[Last(trk.detections).label + 1] = "person"

\* a score of 0.5 is 50 hundredths
has_high_score(trk) ==
    \E k \in 1..Len(trk.detections) : trk.detections[k].score >= 50

filtered_tracks(tracks, label_list) ==
    SelectSeq(tracks,
        LAMBDA trk : /\ is_person(trk, label_list)
                     /\ is_long_enough(trk)
                     /\ has_high_score(trk))

\* the detections of tracks[k..], track after track
RECURSIVE TrackDetections(_, _)
TrackDetections(tracks, k) ==
    IF k > Len(tracks) THEN <<>>
    ELSE tracks[k].detections \o TrackDetections(tracks, k + 1)

\* detections_by_frame[ts]: the detections of the filtered tracks with
\* that timestamp, in the order they were appended
detections_by_frame(filtered, ts) ==
    SelectSeq(TrackDetections(filtered, 1), LAMBDA d : d.timestamp = ts)

\* the keys of detections_by_frame, ascending
sorted_frames(filtered) ==
    LET keys == {d.timestamp : d \in Range(TrackDetections(filtered, 1))}
    IN  List([p \in 1..Cardinality(keys) |->
                 CHOOSE t \in keys : Cardinality({u \in keys : u < t}) = p - 1],
             Cardinality(keys))

\* one formatted line: frame, track_id, left, top, width, height, conf and
\* the three unused fields; detection.track is a track of tracks
output_line(tracks, d, numbers) ==
    <<numbers[d.timestamp + 1], tracks[d.track].id, d.box[1], d.box[2],
      d.box[3] - d.box[1], d.box[4] - d.box[2], d.score, -1, -1, -1>>

\* the lines of the frames frames[k..]
RECURSIVE OutputLines(_, _, _, _, _)
OutputLines(tracks, filtered, numbers, frames, k) ==
    IF k > Len(frames) THEN <<>>
    ELSE LET ds == detections_by_frame(filtered, frames[k])
         IN  List([i \in 1..Len(ds) |-> output_line(tracks, ds[i], numbers)],
                  Len(ds))
             \o OutputLines(tracks, filtered, numbers, frames, k + 1)

\* [err, lines]: the assertion that some detection is left, and the lines
\* written to the track file
output_mot_tracks(tracks, label_list, numbers) ==
    LET filtered == filtered_tracks(tracks, label_list)
        frames == sorted_frames(filtered)
    IN  IF frames = <<>>
        THEN [err |-> "AssertionError", lines |-> <<>>]
        ELSE [err |-> NoError,
              lines |-> OutputLines(tracks, filtered, numbers, frames, 1)]

\* main() writes the tracks track() returned
Output(label_list) ==
    LET out == output_mot_tracks(all_tracks, label_list, frame_numbers)
    IN  /\ pc = "done"
        /\ pc' = IF out.err # NoError THEN out.err ELSE "written"
        /\ output_str' = out.lines
        /\ UNCHANGED <<all_tracks, current_tracks, track_id, timestamp,
                       tracking_params, image_results, detections,
                       matched_tracks, num_read, frame_numbers>>

\* ------------------------------------------------------------ the inputs
\* the defaults of add_tracking_arguments (frames_skip_max scaled down)
DefaultParams ==
    [score_init_min |-> 90, score_continue_min |-> 70,
     frames_skip_max |-> 1, spatial_dist_max |-> <<1, 5>>,
     area_ratio |-> <<1, 2>>, iou_min |-> <<1, 10>>,
     iou_gap_min |-> <<0, 1>>, ignore_labels |-> FALSE,
     appearance_gap |-> 0]

\* parameter choices of the matching specification
MatchParams == {DefaultParams}

\* parameter choices of the lifecycle specification
LifeParams ==
    {[DefaultParams EXCEPT !.frames_skip_max = k] : k \in {-1, 0, 1, 2}}

\* parameter choices of the score specification
ScoreParams == {DefaultParams}

\* a prediction of a frame record: box[:4], box[4] (score), label, mask
\* and appearance feature
Prediction(box, score, label, mask, mask_feature) ==
    [box |-> box, score |-> score, label |-> label, mask |-> mask,
     mask_feature |-> mask_feature]

BasePrediction == Prediction(<<0, 0, 2, 2>>, 100, 0, {1, 2}, 0)

\* the frame record of a list of predictions, after
\* convert_from_cls_format: the lists boxes, masks and labels
Record(preds) ==
    [boxes |-> List([i \in 1..Len(preds) |->
                        preds[i].box \o <<preds[i].score>>], Len(preds)),
     masks |-> List([i \in 1..Len(preds) |->
                        [mask |-> preds[i].mask,
                         mask_feature |-> preds[i].mask_feature]],
                    Len(preds)),
     labels |-> List([i \in 1..Len(preds) |-> preds[i].label], Len(preds))]

\* predictions of the matching specification: the base object, and
\* variations of its label, position, appearance and mask
MatchKinds ==
    {BasePrediction,
     [BasePrediction EXCEPT !.label = 1],
     [BasePrediction EXCEPT !.box = <<4, 0, 6, 2>>],
     [BasePrediction EXCEPT !.mask_feature = 1],
     [BasePrediction EXCEPT !.mask = {1, 2, 3}]}

\* predictions of the lifecycle specification: the base object, the object
\* somewhere else, and the object with an empty mask
LifeKinds ==
    {BasePrediction,
     [BasePrediction EXCEPT !.box = <<4, 0, 6, 2>>],
     [BasePrediction EXCEPT !.mask = {}]}

\* predictions of the score specification: the base object with every
\* score around the two thresholds
ScoreKinds ==
    {[BasePrediction EXCEPT !.score = s] : s \in {60, 70, 80, 90, 100}}

\* parameter choices of the gate specification
GateParams == {DefaultParams}

\* predictions of the gate specification: an object of 6 pixels; the
\* object moved, with mask IoU 1/11; and the object grown to 1.5, 2 and 10
\* times its area
GateKinds ==
    {[BasePrediction EXCEPT !.mask = 1..6],
     [BasePrediction EXCEPT !.mask = 6..11],
     [BasePrediction EXCEPT !.mask = 1..9],
     [BasePrediction EXCEPT !.mask = 1..12],
     [BasePrediction EXCEPT !.mask = 1..60]}

\* parameter choices of the pass-order specification
OrderParams == {DefaultParams}

\* predictions of the pass-order specification: an object of 6 pixels, the
\* object grown to 1.5 times its area, and an object of 10 times its area,
\* which the area gate keeps apart from the other two
OrderKinds ==
    {[BasePrediction EXCEPT !.mask = 1..6],
     [BasePrediction EXCEPT !.mask = 1..9],
     [BasePrediction EXCEPT !.mask = 1..60]}

\* parameter choices of the frame-record specification
RecordParams == {DefaultParams}

\* the entries of the lists of a frame record of the frame-record
\* specification: boxes with their scores, masks with their appearance, and
\* labels
RecordBoxes == {<<0, 0, 2, 2, 100>>, <<4, 0, 6, 2, 100>>}

RecordMasks ==
    {[mask |-> {1, 2}, mask_feature |-> 0],
     [mask |-> {1, 2, 3}, mask_feature |-> 0]}

RecordLabels == {0, 1}

\* parameter choices of the single-object specification: the defaults, and
\* an IoU gap no pair reaches, which leaves every commit to stage 3
ScenarioParams ==
    {DefaultParams, [DefaultParams EXCEPT !.iou_gap_min = <<1, 1>>]}

\* predictions of the single-object specification: the predictions of the
\* matching specification, and the base object moved by one pixel
ScenarioKinds ==
    MatchKinds \cup {[BasePrediction EXCEPT !.box = <<1, 0, 3, 2>>]}

\* parameters of the area specification: the area check disabled, the
\* default threshold, a stricter one, and one that no pair passes
AreaParams ==
    {[DefaultParams EXCEPT !.area_ratio = ratio] :
         ratio \in {<<0, 1>>, <<1, 2>>, <<2, 3>>, <<1, 1>>}}

\* predictions of the area specification: the base object with masks of
\* every area up to MaxArea, the empty mask included
AreaKinds == {[BasePrediction EXCEPT !.mask = 1..n] : n \in 0..MaxArea}

\* parameters of the stage specification: the gaps of stage 2 and stage 3
\* at their defaults and above them
StageParams ==
    {[DefaultParams EXCEPT !.iou_gap_min = iou_gap, !.appearance_gap = gap] :
         iou_gap \in {<<0, 1>>, <<1, 2>>}, gap \in {0, 1}}

\* predictions of the stage specification: the base object, the same with
\* another appearance (distance 1), and with a mask of IoU 2/3
StageKinds ==
    {BasePrediction,
     [BasePrediction EXCEPT !.mask_feature = 1],
     [BasePrediction EXCEPT !.mask = {1, 2, 3}]}

\* parameters of the track-file specification: thresholds below every
\* score of its tracks
MotParams ==
    {[DefaultParams EXCEPT !.score_init_min = 30, !.score_continue_min = 30]}

\* get_classes(): the names of the labels; label 0 is the background
CocoLabels == <<"__background__", "person", "bicycle">>

\* frame numbers of the frames, ascending as main() sorts the frames
MotFrameNumbers ==
    {List([t \in 1..MotFrames |-> t - 1], MotFrames),
     List([t \in 1..MotFrames |-> 2 * t + 1], MotFrames)}

\* a track as track() leaves it: the track of index ref in all_tracks, with
\* n detections in the frames from start on, of a person but for the label
\* of the last; the first has score first_score, the others 0.4; the box
\* of track 1 is (10, 10, 50, 60)
MotTrack(ref, start, n, first_score, last_label) ==
    [id |-> ref - 1,
     detections |->
         List([k \in 1..n |->
                  [Detection(<<10 * ref, 10, 10 * ref + 40, 60>>,
                             IF k = 1 THEN first_score ELSE 40,
                             IF k = n THEN last_label ELSE 1,
                             start + k - 1, {2 * ref - 1, 2 * ref}, 0)
                   EXCEPT !.track = ref, !.obj = ref]], n)]

MotTrackChoices(ref) ==
    {MotTrack(ref, start, n, first_score, last_label) :
         start \in {0, 1}, n \in {4, 5, 6}, first_score \in {40, 50},
         last_label \in {1, 2}}

\* the lists of at most n tracks
RECURSIVE MotTrackLists(_)
MotTrackLists(n) ==
    IF n = 0 THEN {<<>>}
    ELSE MotTrackLists(n - 1) \cup
         {Append(T, trk) : T \in {U \in MotTrackLists(n - 1) : Len(U) = n - 1},
                           trk \in MotTrackChoices(n)}

\* ------------------------------------------------------- specifications
InitWith(Params) ==
    /\ all_tracks = <<>>
    /\ current_tracks = <<>>
    /\ track_id = 0
    /\ timestamp = 0
    /\ tracking_params \in Params
    /\ image_results = Record(<<>>)
    /\ detections = <<>>
    /\ matched_tracks = <<>>
    /\ num_read = 0
    /\ frame_numbers = <<>>
    /\ output_str = <<>>
    /\ pc = "loop"

Init == InitWith(MatchParams)

InitGate == InitWith(GateParams)

InitOrder == InitWith(OrderParams)

InitRecord == InitWith(RecordParams)

InitScenario == InitWith(ScenarioParams)

InitStage == InitWith(StageParams)

InitArea == InitWith(AreaParams)

\* track() has returned all_tracks for a sequence of MotFrames frames
InitMot ==
    /\ all_tracks \in MotTrackLists(MotTracks)
    /\ current_tracks = List([r \in 1..Len(all_tracks) |-> r], Len(all_tracks))
    /\ track_id = Len(all_tracks)
    /\ timestamp = MotFrames
    /\ tracking_params \in MotParams
    /\ image_results = Record(<<>>)
    /\ detections = <<>>
    /\ matched_tracks = <<>>
    /\ num_read = 0
    /\ frame_numbers \in MotFrameNumbers
    /\ output_str = <<>>
    /\ pc = "done"

InitLife == InitWith(LifeParams)

InitScore == InitWith(ScoreParams)

\* the next frame of the matching specification
Frame ==
    /\ timestamp < MaxFrames
    /\ \E results \in SeqsUpTo(MatchKinds, MaxPredictions - num_read) :
           ProcessFrame(Record(results))

\* the next frame of the lifecycle specification
LifeFrame ==
    /\ timestamp < LifeFrames
    /\ \E results \in SeqsUpTo(LifeKinds, LifePredictions - num_read) :
           ProcessFrame(Record(results))

\* the next frame of the score specification
ScoreFrame ==
    /\ timestamp < ScoreFrames
    /\ \E results \in SeqsUpTo(ScoreKinds, ScorePredictions - num_read) :
           ProcessFrame(Record(results))

\* the next frame of the gate specification
GateFrame ==
    /\ timestamp < GateFrames
    /\ \E results \in SeqsUpTo(GateKinds, GatePredictions - num_read) :
           ProcessFrame(Record(results))

\* the next frame of the pass-order specification
OrderFrame ==
    /\ timestamp < OrderFrames
    /\ \E results \in SeqsUpTo(OrderKinds, OrderPredictions - num_read) :
           ProcessFrame(Record(results))

\* the next frame of the area specification
AreaFrame ==
    /\ timestamp < AreaFrames
    /\ \E results \in SeqsUpTo(AreaKinds, AreaPredictions - num_read) :
           ProcessFrame(Record(results))

\* the next frame of the stage specification
StageFrame ==
    /\ timestamp < StageFrames
    /\ \E results \in SeqsUpTo(StageKinds, StagePredictions - num_read) :
           ProcessFrame(Record(results))

\* the next frame of the frame-record specification: the labels are as
\* many as the boxes, the masks are a list of their own
RecordFrame ==
    /\ timestamp < RecordFrames
    /\ \E boxes \in SeqsUpTo(RecordBoxes, RecordPredictions - num_read) :
       \E masks \in SeqsUpTo(RecordMasks, RecordPredictions - num_read) :
       \E labels \in SeqsUpTo(RecordLabels, RecordPredictions - num_read) :
           /\ Len(labels) = Len(boxes)
           /\ ProcessFrame([boxes |-> boxes, masks |-> masks,
                            labels |-> labels])

\* the next frame of the single-object specification: one prediction,
\* with score 1.0, that passes every gate against the detection of the
\* frame before
ScenarioFrame ==
    /\ timestamp < ScenarioFrames
    /\ \E p \in ScenarioKinds :
           /\ timestamp > 0 =>
                  passes_gates(
                      [detections |-> detections],
                      build_detections(Record(<<p>>), timestamp,
                                       tracking_params)[1],
                      tracking_params)
           /\ ProcessFrame(Record(<<p>>))

Next == Frame \/ Return

NextGate == GateFrame \/ Return

NextOrder == OrderFrame \/ Return

NextRecord == RecordFrame \/ Return

NextScenario == ScenarioFrame \/ Return

NextStage == StageFrame \/ Return

NextArea == AreaFrame \/ Return

NextMot == Output(CocoLabels)

NextLife == LifeFrame \/ Return

NextScore == ScoreFrame \/ Return

Spec == Init /\ [][Next]_vars

SpecGate == InitGate /\ [][NextGate]_vars

SpecOrder == InitOrder /\ [][NextOrder]_vars

SpecRecord == InitRecord /\ [][NextRecord]_vars

SpecScenario == InitScenario /\ [][NextScenario]_vars

SpecStage == InitStage /\ [][NextStage]_vars

SpecArea == InitArea /\ [][NextArea]_vars

SpecMot == InitMot /\ [][NextMot]_vars

SpecLife == InitLife /\ [][NextLife]_vars

SpecScore == InitScore /\ [][NextScore]_vars

\* --------------------------------------------------------------- claims
\* a frame has been processed and track() is still running or has returned
Returned == pc \in {"loop", "done"} /\ timestamp > 0

\* C1: what match_detections returns is a partial injection: one entry, a
\* track or None, per detection, no track is the entry of two detections,
\* and the assertion of the merge step never fails.
C1_PartialInjection ==
    /\ pc # "AssertionError"
    /\ Returned =>
           /\ Len(matched_tracks) = Len(detections)
           /\ \A i \in 1..Len(matched_tracks) :
                  matched_tracks[i] \in {None} \cup (1..Len(all_tracks))
           /\ \A i, j \in 1..Len(matched_tracks) :
                  (i # j /\ matched_tracks[i] # None)
                      => matched_tracks[i] # matched_tracks[j]

\* two detections of one frame are assigned to tracks
C1_Witness ==
    /\ pc = "loop"
    /\ \E i, j \in 1..Len(matched_tracks) :
           /\ i # j
           /\ matched_tracks[i] # None
           /\ matched_tracks[j] # None

\* C2: every track of the result list has a non-empty detections list with
\* strictly increasing timestamps, and last_timestamp() is the timestamp
\* of its last element.
C2_TracksNonEmptyIncreasing ==
    \A r \in 1..Len(all_tracks) :
        LET ds == all_tracks[r].detections
        IN  /\ ds # <<>>
            /\ \A k \in 1..(Len(ds) - 1) :
                   ds[k].timestamp < ds[k + 1].timestamp
            /\ last_timestamp(all_tracks[r]) = ds[Len(ds)].timestamp

\* a track that was extended in two frames after a frame it missed
C2_Witness ==
    \E r \in 1..Len(all_tracks) :
        LET ds == all_tracks[r].detections
        IN  /\ Len(ds) >= 2
            /\ ds[2].timestamp > ds[1].timestamp + 1

\* one iteration of the frame loop ran to its end
FrameStep == pc = "loop" /\ pc' = "loop" /\ timestamp' = timestamp + 1

\* track r received no detection in the step
Untouched(r) == all_tracks'[r].detections = all_tracks[r].detections

\* the detection as it is stored in the track ref
Owned(d, ref) == [d EXCEPT !.track = ref]

\* C3: at the end of frame t an active track that received no detection in
\* t stays active if t - last_timestamp() < frames_skip_max and is removed
\* from the active set otherwise.
C3_SkipOrRetire ==
    [][FrameStep =>
        \A r \in Range(current_tracks) :
            Untouched(r) =>
                (r \in Range(current_tracks')
                    <=> timestamp - last_timestamp(all_tracks[r])
                            < tracking_params.frames_skip_max)]_vars

\* C4: after frames_skip_max + 1 consecutive missed frames, a detection of
\* the following frame that passes every gate against the track, with a
\* score above score_init_min, is not appended to the track: it starts a
\* new track.
C4_NewIdentityAfterGrace ==
    [][(FrameStep /\ tracking_params.frames_skip_max >= 0) =>
        \A r \in 1..Len(all_tracks) : \A i \in 1..Len(detections') :
            (/\ timestamp - last_timestamp(all_tracks[r])
                    = tracking_params.frames_skip_max + 2
             /\ passes_gates(all_tracks[r], detections'[i], tracking_params)
             /\ detections'[i].score > tracking_params.score_init_min)
            => /\ Untouched(r)
               /\ \E n \in (Len(all_tracks) + 1)..Len(all_tracks') :
                      all_tracks'[n].detections
                          = <<Owned(detections'[i], n)>>]_vars

\* C5 as stated: after exactly frames_skip_max consecutive missed frames, a
\* detection of the next frame that passes every gate against the track is
\* appended to that track.
C5_ReattachAsStated ==
    [][(FrameStep /\ tracking_params.frames_skip_max >= 0) =>
        \A r \in 1..Len(all_tracks) : \A i \in 1..Len(detections') :
            (/\ timestamp - last_timestamp(all_tracks[r])
                    = tracking_params.frames_skip_max + 1
             /\ passes_gates(all_tracks[r], detections'[i], tracking_params))
            => all_tracks'[r].detections
                   = Append(all_tracks[r].detections,
                            Owned(detections'[i], r))]_vars

\* C5, amended: the same, when no other track is active and no other
\* detection of the frame passes the gates of the track; and the detection
\* starts no track.
C5_ReattachWhenAlone ==
    [][(FrameStep /\ tracking_params.frames_skip_max >= 0) =>
        \A r \in 1..Len(all_tracks) : \A i \in 1..Len(detections') :
            (/\ timestamp - last_timestamp(all_tracks[r])
                    = tracking_params.frames_skip_max + 1
             /\ Range(current_tracks) \subseteq {r}
             /\ {j \in 1..Len(detections') :
                    passes_gates(all_tracks[r], detections'[j],
                                 tracking_params)} = {i})
            => /\ matched_tracks'[i] = r
               /\ all_tracks'[r].detections
                      = Append(all_tracks[r].detections,
                               Owned(detections'[i], r))
               /\ \A n \in (Len(all_tracks) + 1)..Len(all_tracks') :
                      all_tracks'[n].detections[1]
                          # Owned(detections'[i], n)]_vars

\* a track that missed exactly frames_skip_max >= 1 frames, then received
\* the only detection of a frame
C5_Witness ==
    /\ pc = "loop"
    /\ tracking_params.frames_skip_max >= 1
    /\ Len(all_tracks) = 1
    /\ Len(detections) = 1
    /\ matched_tracks = <<1>>
    /\ LET ds == all_tracks[1].detections
       IN  /\ Len(ds) >= 2
           /\ ds[Len(ds)].timestamp - ds[Len(ds) - 1].timestamp
                  = tracking_params.frames_skip_max + 1

\* C6: when ignore_labels is not set, every pair the matcher commits (in
\* stage 2 or in stage 3) has the label of the detection equal to the label
\* of the last detection of the track.
C6_CommittedSameLabel ==
    [][(FrameStep /\ ~tracking_params.ignore_labels) =>
        \A i \in 1..Len(matched_tracks') :
            matched_tracks'[i] # None =>
                detections'[i].label
                    = Last(all_tracks[matched_tracks'[i]].detections).label]_vars

\* C7: every pair the matcher commits has a normalized distance of the box
\* centres of at most spatial_dist_max.
C7_CommittedNear ==
    [][FrameStep =>
        \A i \in 1..Len(matched_tracks') :
            matched_tracks'[i] # None =>
                ~too_far(all_tracks[matched_tracks'[i]], detections'[i],
                         tracking_params)]_vars

\* C8: when the last detection of an active track has mask area zero, the
\* matching pass raises no error and matches the track to no detection.
C8_ZeroAreaTrackUnmatched ==
    [][(pc = "loop" /\ pc' # "done") =>
        \A r \in Range(current_tracks) :
            compute_area(Last(all_tracks[r].detections)) = 0
                => /\ pc' = "loop"
                   /\ \A i \in 1..Len(matched_tracks') :
                          matched_tracks'[i] # r]_vars

\* C9: no detection of any track has a score below score_continue_min.
C9_NoLowScoreInTracks ==
    \A r \in 1..Len(all_tracks) :
        \A k \in 1..Len(all_tracks[r].detections) :
            all_tracks[r].detections[k].score
                >= tracking_params.score_continue_min

\* a frame with a prediction below score_continue_min was processed while
\* a track at the same place, born in an earlier frame, was active
C9_Witness ==
    /\ pc = "loop"
    /\ \E k \in 1..Len(image_results.boxes) :
       \E r \in Range(current_tracks) :
           /\ image_results.boxes[k][5] < tracking_params.score_continue_min
           /\ all_tracks[r].detections[1].timestamp < timestamp - 1
           /\ all_tracks[r].detections[1].box
                  = SubSeq(image_results.boxes[k], 1, 4)
           /\ all_tracks[r].detections[1].mask = image_results.masks[k].mask

\* the detections of the frame the matcher left unmatched
Unmatched == {i \in 1..Len(detections') : matched_tracks'[i] = None}

RECURSIVE TotalDetections(_, _)
TotalDetections(T, r) ==
    IF r > Len(T) THEN 0
    ELSE Len(T[r].detections) + TotalDetections(T, r + 1)

\* the unmatched detections in Starters, in their order, are the single
\* detections of the new tracks, and no other detection is stored
BirthsAre(Starters) ==
    /\ Len(all_tracks') = Len(all_tracks) + Cardinality(Starters)
    /\ \A i \in Starters :
           LET n == Len(all_tracks)
                        + Cardinality({j \in Starters : j <= i})
           IN  all_tracks'[n].detections = <<Owned(detections'[i], n)>>
    /\ TotalDetections(all_tracks', 1)
           = TotalDetections(all_tracks, 1)
                 + Cardinality(Starters)
                 + Cardinality((1..Len(detections')) \ Unmatched)

\* C10 as stated: an unmatched detection starts a track exactly when its
\* score >= score_init_min; below, it is added to no track.
C10_BirthAtOrAboveThreshold ==
    [][FrameStep =>
        BirthsAre({i \in Unmatched :
            detections'[i].score >= tracking_params.score_init_min})]_vars

\* C10, amended: an unmatched detection starts a track exactly when its
\* score > score_init_min; a score equal to score_init_min starts none.
C10_BirthAboveThreshold ==
    [][FrameStep =>
        BirthsAre({i \in Unmatched :
            detections'[i].score > tracking_params.score_init_min})]_vars

\* a frame with two unmatched detections, one with a score equal to
\* score_init_min and one above it, that started one track
C10_Witness ==
    /\ pc = "loop"
    /\ \E i, j \in 1..Len(detections) :
           /\ matched_tracks[i] = None
           /\ matched_tracks[j] = None
           /\ detections[i].score = tracking_params.score_init_min
           /\ detections[j].score > tracking_params.score_init_min
    /\ \E r \in 1..Len(all_tracks) :
           /\ Len(all_tracks[r].detections) = 1
           /\ all_tracks[r].detections[1].timestamp = timestamp - 1
           /\ all_tracks[r].detections[1].score
                  > tracking_params.score_init_min
    /\ \A r \in 1..Len(all_tracks) :
           all_tracks[r].detections[1].score
               # tracking_params.score_init_min

\* the areas a and b are positive and a / b lies strictly inside
\* (ratio, 1 / ratio), for a rational ratio
RatioInside(a, b, ratio) ==
    /\ a > 0
    /\ b > 0
    /\ a * ratio[2] > ratio[1] * b
    /\ b * ratio[2] > ratio[1] * a

\* C11: every pair the matcher commits passes the area gate: the mask
\* area of the detection, over the area of the last detection of the
\* track, lies strictly inside (area_ratio, 1 / area_ratio).
C11_CommittedAreaGate ==
    [][FrameStep =>
        \A i \in 1..Len(matched_tracks') :
            matched_tracks'[i] # None =>
                RatioInside(
                    compute_area(detections'[i]),
                    compute_area(Last(all_tracks[matched_tracks'[i]].detections)),
                    tracking_params.area_ratio)]_vars

\* a track received a detection of another area than its previous one, in
\* a frame where a detection of 10 times that previous area was left
\* unmatched
C11_Witness ==
    /\ pc = "loop"
    /\ \E r \in 1..Len(all_tracks) :
           LET ds == all_tracks[r].detections
           IN  /\ Len(ds) >= 2
               /\ ds[Len(ds)].timestamp = timestamp - 1
               /\ compute_area(ds[Len(ds)]) # compute_area(ds[Len(ds) - 1])
               /\ \E j \in 1..Len(detections) :
                      /\ matched_tracks[j] = None
                      /\ compute_area(detections[j])
                             = 10 * compute_area(ds[Len(ds) - 1])

\* the loop states of the call of match_detections made by the step
StepPasses ==
    PassStates(all_tracks, current_tracks, detections', tracking_params,
        sorted_timestamps(all_tracks, current_tracks),
        [matched |-> List([i \in 1..Len(detections') |-> None],
                          Len(detections')),
         unmatched |-> List([i \in 1..Len(detections') |-> i],
                            Len(detections')),
         err |-> NoError], 1)

\* the active tracks whose last timestamp is ts
Group(ts) ==
    {r \in Range(current_tracks) : last_timestamp(all_tracks[r]) = ts}

\* C12: match_detections makes one pass per last timestamp of the active
\* tracks, in descending order of the timestamps; the first pass is offered
\* every detection, and each later pass is offered exactly the detections
\* offered to the pass before it that were not committed to a track of that
\* pass's group.
C12_PassesByDescendingTimestamp ==
    [][FrameStep =>
        LET ts == sorted_timestamps(all_tracks, current_tracks)
            passes == StepPasses
        IN  /\ Range(ts) = {last_timestamp(all_tracks[r]) :
                                r \in Range(current_tracks)}
            /\ \A k \in 1..(Len(ts) - 1) : ts[k] > ts[k + 1]
            /\ Len(passes) = Len(ts) + 1
            /\ Range(passes[1].unmatched) = 1..Len(detections')
            /\ \A k \in 1..Len(ts) :
                   /\ Range(passes[k + 1].unmatched)
                          = {i \in Range(passes[k].unmatched) :
                                 matched_tracks'[i] \notin Group(ts[k])}
                   /\ \A i \in 1..Len(detections') :
                          matched_tracks'[i] \in Group(ts[k])
                              => i \in Range(passes[k].unmatched)]_vars

\* a frame in which one detection was committed to a track of the most
\* recent group and another to a track of an older group
C12_Witness ==
    /\ pc = "loop"
    /\ \E i, j \in 1..Len(detections) :
           /\ matched_tracks[i] # None
           /\ matched_tracks[j] # None
           /\ LET di == all_tracks[matched_tracks[i]].detections
                  dj == all_tracks[matched_tracks[j]].detections
              IN  /\ di[Len(di)].timestamp = timestamp - 1
                  /\ dj[Len(dj)].timestamp = timestamp - 1
                  /\ Len(di) >= 2
                  /\ Len(dj) >= 2
                  /\ di[Len(di) - 1].timestamp > dj[Len(dj) - 1].timestamp

\* C13: a track that is not in the active set is matched by no later frame,
\* never enters the active set again, and stays in all_tracks, the list
\* track() returns, with its detections unchanged.
C13_RetiredImmutable ==
    [][\A r \in 1..Len(all_tracks) :
           r \notin Range(current_tracks) =>
               /\ r <= Len(all_tracks')
               /\ all_tracks'[r] = all_tracks[r]
               /\ r \notin Range(current_tracks')
               /\ FrameStep => \A i \in 1..Len(matched_tracks') :
                                   matched_tracks'[i] # r]_vars

\* track() returned a retired track together with a track born later from
\* a detection that passes every gate against the retired track
C13_Witness ==
    /\ pc = "done"
    /\ \E r, q \in 1..Len(all_tracks) :
           /\ r \notin Range(current_tracks)
           /\ all_tracks[q].detections[1].timestamp
                  > last_timestamp(all_tracks[r])
           /\ passes_gates(all_tracks[r], all_tracks[q].detections[1],
                           tracking_params)

\* C14: the ids of the tracks of all_tracks are pairwise distinct and
\* increase along the list, and every one is below track_id, the id of the
\* next track: no id, of a retired track or of an active one, is used again.
C14_IdsUniqueIncreasing ==
    /\ \A r, q \in 1..Len(all_tracks) :
           r < q => all_tracks[r].id < all_tracks[q].id
    /\ \A r \in 1..Len(all_tracks) : all_tracks[r].id < track_id

\* three tracks, the first retired before the last was born
C14_Witness ==
    /\ pc = "done"
    /\ Len(all_tracks) >= 3
    /\ 1 \notin Range(current_tracks)
    /\ all_tracks[Len(all_tracks)].detections[1].timestamp
           > last_timestamp(all_tracks[1]) + 1

\* the places <<track, position>> of the detections lists of all_tracks
Places ==
    UNION {{<<r, k>> : k \in 1..Len(all_tracks[r].detections)} :
               r \in 1..Len(all_tracks)}

\* C15: no Detection object is at two places of the detections lists, in
\* two tracks or twice in one, and the back-reference track of every listed
\* detection is the track whose list holds it.
C15_OwnedByOneTrack ==
    /\ \A p, q \in Places :
           p # q => object_id(all_tracks[p[1]].detections[p[2]])
                        # object_id(all_tracks[q[1]].detections[q[2]])
    /\ \A p \in Places : all_tracks[p[1]].detections[p[2]].track = p[1]

\* two tracks hold detections of one frame that differ in nothing but
\* their identity and owner, and one of the tracks was extended later
C15_Witness ==
    /\ pc = "loop"
    /\ \E r, q \in 1..Len(all_tracks) :
           /\ r # q
           /\ Len(all_tracks[r].detections) >= 2
           /\ [all_tracks[r].detections[1] EXCEPT !.obj = None, !.track = None]
                  = [all_tracks[q].detections[1] EXCEPT !.obj = None,
                                                        !.track = None]

\* C16: every pair the matcher commits, in stage 2 or in stage 3, has a
\* mask IoU of at least iou_min between the detection and the last
\* detection of the track.
C16_CommittedIouAtLeastMin ==
    [][FrameStep =>
        \A i \in 1..Len(matched_tracks') :
            matched_tracks'[i] # None =>
                RatGe(mask_iou(Last(all_tracks[matched_tracks'[i]].detections),
                               detections'[i]),
                      tracking_params.iou_min)]_vars

\* C17: a frame whose record holds no prediction is processed without an
\* error, as an empty detection list: no track is created or extended, and
\* the active set only loses tracks.
C17_EmptyFrameGraceful ==
    [][(pc = "loop" /\ pc' # "done" /\ image_results' = Record(<<>>)) =>
        /\ pc' = "loop"
        /\ timestamp' = timestamp + 1
        /\ detections' = <<>>
        /\ all_tracks' = all_tracks
        /\ track_id' = track_id
        /\ Range(current_tracks') \subseteq Range(current_tracks)]_vars

\* C18: when the lists boxes, masks and labels of the record of a frame
\* have different lengths, track() stops with an error in that frame.
C18_MismatchedRecordFails ==
    [][(/\ pc = "loop"
        /\ pc' # "done"
        /\ {Len(image_results'.boxes), Len(image_results'.masks),
               Len(image_results'.labels)}
              # {Len(image_results'.boxes)})
       => pc' \notin {"loop", "done"}]_vars

\* C19: with one detection per frame, each of score 1.0 and passing every
\* gate against the detection of the frame before, track() raises no error
\* and all_tracks, which it returns, is one track that holds one detection
\* for every frame processed.
C19_OneTrackSpanningAllFrames ==
    /\ pc \in {"loop", "done"}
    /\ timestamp > 0 =>
           /\ Len(all_tracks) = 1
           /\ Len(all_tracks[1].detections) = timestamp
           /\ \A k \in 1..timestamp :
                  all_tracks[1].detections[k].timestamp = k - 1

\* track() returned after all the frames, the object having changed its
\* mask, its place and its appearance between frames
C19_Witness ==
    /\ pc = "done"
    /\ timestamp = ScenarioFrames
    /\ Len(all_tracks) = 1
    /\ LET ds == all_tracks[1].detections
       IN  \E i, j, k \in 1..(Len(ds) - 1) :
               /\ ds[i].mask # ds[i + 1].mask
               /\ ds[j].box # ds[j + 1].box
               /\ ds[k].mask_feature # ds[k + 1].mask_feature

\* the places of the detections of the tracks whose last detection is a
\* person, that have more than 4 detections, one of them with a score of
\* at least 0.5
QualifyingPlaces ==
    {p \in Places :
        LET ds == all_tracks[p[1]].detections
        IN  /\ CocoLabels[ds[Len(ds)].label + 1] = "person"
            /\ Len(ds) > 4
            /\ \E k \in 1..Len(ds) : ds[k].score >= 50}

\* the line of the detection at place p
LineOf(p) ==
    LET d == all_tracks[p[1]].detections[p[2]]
    IN  <<frame_numbers[d.timestamp + 1], all_tracks[p[1]].id,
          d.box[1], d.box[2], d.box[3] - d.box[1], d.box[4] - d.box[2],
          d.score, -1, -1, -1>>

\* C20: the lines output_mot_tracks writes are the lines of the detections
\* of the qualifying tracks, one line for each, by ascending frame number,
\* each with width x1 - x0, height y1 - y0 and the fields -1, -1, -1 at
\* its end; it writes nothing, failing its assertion, only when no track
\* qualifies.
C20_MotLines ==
    /\ pc = "written" =>
           /\ Len(output_str) = Cardinality(QualifyingPlaces)
           /\ Range(output_str) = {LineOf(p) : p \in QualifyingPlaces}
           /\ Cardinality(Range(output_str)) = Len(output_str)
           /\ \A i \in 1..(Len(output_str) - 1) :
                  output_str[i][1] <= output_str[i + 1][1]
    /\ pc = "AssertionError" => QualifyingPlaces = {} /\ output_str = <<>>
    /\ pc = "done" => output_str = <<>>

\* the file holds the 6 lines of a person track with box (10, 10, 50, 60),
\* of width 40 and height 50, and no line of a second track of 4
\* detections
C20_Witness ==
    /\ pc = "written"
    /\ Len(all_tracks) = 2
    /\ Len(all_tracks[2].detections) = 4
    /\ Len(output_str) = 6
    /\ \A i \in 1..Len(output_str) :
           output_str[i] = <<frame_numbers[i], 0, 10, 10, 40, 50,
                             all_tracks[1].detections[i].score, -1, -1, -1>>

\* the tracks of pass k of the step, in the order of the active set
PassTracks(k) ==
    SelectSeq(current_tracks,
        LAMBDA r : last_timestamp(all_tracks[r])
                       = sorted_timestamps(all_tracks, current_tracks)[k])

\* the detections among dets at the positions of unmatched
Offered(dets, unmatched) ==
    List([i \in 1..Len(unmatched) |-> dets[unmatched[i]]], Len(unmatched))

\* the number of passes of the step
NumPasses == Len(sorted_timestamps(all_tracks, current_tracks))

\* the detection d passes the filters of stage 2 for the track ref, claimed
\* being its entry of matched_tracks when the track is processed
PassesStage2Filters(ref, d, claimed) ==
    /\ claimed = None
    /\ ~different_label(Last(all_tracks[ref].detections), d, tracking_params)
    /\ ~too_far(all_tracks[ref], d, tracking_params)

\* C21: only detections that passed the distance, label and already-claimed
\* filters of stage 2 with an IoU of at least iou_min are candidates of a
\* track in stage 3; a track for which no detection passed the filters of
\* stage 2 has no candidate in stage 3 and stays unmatched in that pass.
C21_Stage3CandidatesPassedStage2 ==
    [][FrameStep =>
        \A k \in 1..NumPasses :
            LET tracks == PassTracks(k)
                unmatched == StepPasses[k].unmatched
                dets == Offered(detections', unmatched)
                st0 == after_stage1(all_tracks, tracks, dets, tracking_params)
                st2 == Stage2(all_tracks, tracks, dets, tracking_params, st0, 1)
            IN  \A n \in 1..Len(tracks) :
                    LET ref == tracks[n]
                        before == Stage2(all_tracks, SubSeq(tracks, 1, n - 1),
                                         dets, tracking_params, st0, 1)
                        stage3 == st2.candidates[all_tracks[ref].id].items
                    IN  /\ \A i \in Range(stage3) :
                               /\ PassesStage2Filters(ref, dets[i],
                                                      before.matched[i])
                               /\ RatGe(mask_iou(
                                            Last(all_tracks[ref].detections),
                                            dets[i]),
                                        tracking_params.iou_min)
                        /\ (\A i \in 1..Len(dets) :
                                ~PassesStage2Filters(ref, dets[i],
                                                     before.matched[i]))
                               => /\ stage3 = <<>>
                                  /\ \A i \in Range(unmatched) :
                                         matched_tracks'[i] # ref]_vars

\* i is the top of the detections S for the IoUs iou and exceeds the
\* second-best IoU (0 when i is alone) by more than iou_gap_min
TopByGap(S, iou, i) ==
    /\ i \in S
    /\ \A j \in S \ {i} :
           RatGt(RatSub(iou[i], iou[j]), tracking_params.iou_gap_min)
    /\ S = {i} => RatGt(iou[i], tracking_params.iou_gap_min)

\* C22: in stage 2, when the top-IoU surviving candidate of a track exceeds
\* its second-best IoU (0 for a single survivor) by more than iou_gap_min,
\* that detection is assigned to the track in the result, no other track
\* gets it, and the track takes no part in stage 3: it has no stage-3
\* candidate and receives no other detection.
C22_GapCommit ==
    [][FrameStep =>
        \A k \in 1..NumPasses :
            \A tracks \in {PassTracks(k)}, unmatched \in {StepPasses[k].unmatched} :
            \A dets \in {Offered(detections', unmatched)} :
            \A st0 \in {after_stage1(all_tracks, tracks, dets,
                                      tracking_params)} :
            \A st2 \in {Stage2(all_tracks, tracks, dets, tracking_params,
                                st0, 1)} :
                \A n \in 1..Len(tracks) :
                \A before \in {Stage2(all_tracks, SubSeq(tracks, 1, n - 1),
                                       dets, tracking_params, st0, 1)} :
                    LET ref == tracks[n]
                        survivors ==
                            {i \in Range(st0.candidates[all_tracks[ref].id].items) :
                                 PassesStage2Filters(ref, dets[i],
                                                     before.matched[i])}
                        iou == [i \in survivors |->
                                   mask_iou(Last(all_tracks[ref].detections),
                                            dets[i])]
                    IN  \A i \in survivors :
                            TopByGap(survivors, iou, i) =>
                                /\ matched_tracks'[unmatched[i]] = ref
                                /\ st2.candidates[all_tracks[ref].id].items
                                       = <<>>
                                /\ \A j \in 1..Len(matched_tracks') :
                                       matched_tracks'[j] = ref
                                           => j = unmatched[i]]_vars

\* a track took the detection of highest IoU out of two detections of its
\* label near it, and the other detection went elsewhere
C22_Witness ==
    /\ pc = "loop"
    /\ \E i, j \in 1..Len(detections) :
           /\ i # j
           /\ matched_tracks[i] # None
           /\ matched_tracks[j] # matched_tracks[i]
           /\ LET ds == all_tracks[matched_tracks[i]].detections
                  trk == [all_tracks[matched_tracks[i]] EXCEPT
                             !.detections = SubSeq(ds, 1, Len(ds) - 1)]
              IN  /\ Len(ds) >= 2
                  /\ detections[j].label = ds[Len(ds) - 1].label
                  /\ ~too_far(trk, detections[j], tracking_params)
                  /\ RatGt(RatSub(mask_iou(ds[Len(ds) - 1], detections[i]),
                                  mask_iou(ds[Len(ds) - 1], detections[j])),
                           tracking_params.iou_gap_min)
                  /\ RatGt(mask_iou(ds[Len(ds) - 1], detections[j]), <<0, 1>>)

\* C23: in stage 3 a track that stage 2 left unresolved is matched to the
\* unclaimed candidate of lowest appearance distance exactly when the
\* second-best distance exceeds the best by more than appearance_gap; a
\* single candidate is matched whatever its distance, and the track gets
\* no detection otherwise.
C23_Stage3Commit ==
    [][FrameStep =>
        \A k \in 1..NumPasses :
            \A tracks \in {PassTracks(k)}, unmatched \in {StepPasses[k].unmatched} :
            \A dets \in {Offered(detections', unmatched)} :
            \A st2 \in {Stage2(all_tracks, tracks, dets, tracking_params,
                                after_stage1(all_tracks, tracks, dets,
                                             tracking_params), 1)} :
                \A n \in 1..Len(tracks) :
                \A before \in {Stage3(all_tracks, SubSeq(tracks, 1, n - 1),
                                       dets, tracking_params, st2, 1)} :
                    LET ref == tracks[n]
                        cands ==
                            {i \in Range(st2.candidates[all_tracks[ref].id].items) :
                                 before.matched[i] = None}
                        dist == [i \in cands |->
                                    appearance_distance(
                                        Last(all_tracks[ref].detections),
                                        dets[i])]
                    IN  (\A i \in 1..Len(dets) : st2.matched[i] # ref) =>
                            \A i \in 1..Len(dets) :
                                matched_tracks'[unmatched[i]] = ref
                                    <=> /\ i \in cands
                                        /\ \A j \in cands \ {i} :
                                               dist[j] - dist[i]
                                                   > tracking_params.appearance_gap]_vars

\* a track and two detections of its mask, at appearance distances 0 and 1:
\* with appearance_gap = 0 the track took the nearer one
C23_Witness ==
    /\ pc = "loop"
    /\ tracking_params.appearance_gap = 0
    /\ Len(detections) = 2
    /\ \E i, j \in 1..2 :
           /\ matched_tracks[i] # None
           /\ matched_tracks[j] = None
           /\ detections[i].mask = detections[j].mask
           /\ LET ds == all_tracks[matched_tracks[i]].detections
              IN  /\ Len(ds) >= 2
                  /\ ds[Len(ds) - 1].mask = detections[i].mask
                  /\ appearance_distance(ds[Len(ds) - 1], detections[i]) = 0
                  /\ appearance_distance(ds[Len(ds) - 1], detections[j]) = 1

\* C24 as stated: within stage 2 of a pass the 'already claimed' exclusion
\* uses the claims of the start of the stage: the stage-2 candidate set of
\* a track is the same whatever the tracks before it committed.
C24_ClaimsSnapshot ==
    [][FrameStep =>
        \A k \in 1..NumPasses :
            \A tracks \in {PassTracks(k)}, unmatched \in {StepPasses[k].unmatched} :
            \A dets \in {Offered(detections', unmatched)} :
            \A st0 \in {after_stage1(all_tracks, tracks, dets,
                                      tracking_params)} :
                \A n \in 1..Len(tracks) :
                \A before \in {Stage2(all_tracks, SubSeq(tracks, 1, n - 1),
                                       dets, tracking_params, st0, 1)} :
                    stage2_survivors(all_tracks, tracks[n], dets,
                                     tracking_params, before)
                        = stage2_survivors(all_tracks, tracks[n], dets,
                                           tracking_params, st0)]_vars

\* C24: within stage 2 of a pass the 'already claimed' exclusion of a
\* track uses the claims as they stand when the track is processed: its
\* stage-2 candidates are the detections of similar area, same label and
\* near enough that no track processed before it in the stage committed.
C24_ClaimsLive ==
    [][FrameStep =>
        \A k \in 1..NumPasses :
            \A tracks \in {PassTracks(k)}, unmatched \in {StepPasses[k].unmatched} :
            \A dets \in {Offered(detections', unmatched)} :
            \A st0 \in {after_stage1(all_tracks, tracks, dets,
                                      tracking_params)} :
            \A st2 \in {Stage2(all_tracks, tracks, dets, tracking_params,
                                st0, 1)} :
                \A n \in 1..Len(tracks) :
                \A before \in {Stage2(all_tracks, SubSeq(tracks, 1, n - 1),
                                       dets, tracking_params, st0, 1)} :
                    Range(stage2_survivors(all_tracks, tracks[n], dets,
                                           tracking_params, before))
                        = {i \in Range(st0.candidates[
                                           all_tracks[tracks[n]].id].items) :
                               /\ st2.matched[i]
                                      \notin {tracks[m] : m \in 1..(n - 1)}
                               /\ dets[i].label
                                      = Last(all_tracks[tracks[n]].detections).label
                                  \/ tracking_params.ignore_labels
                               /\ ~too_far(all_tracks[tracks[n]], dets[i],
                                           tracking_params)}]_vars

\* two tracks born in one frame, and a frame of one detection that both
\* tracks overlap: the first track committed it in stage 2, the second
\* got nothing
C24_Witness ==
    /\ pc = "loop"
    /\ timestamp = 2
    /\ Len(all_tracks) = 2
    /\ Len(detections) = 1
    /\ matched_tracks = <<1>>
    /\ RatGt(mask_iou(all_tracks[1].detections[1], detections[1]),
             tracking_params.iou_gap_min)
    /\ RatGt(mask_iou(all_tracks[2].detections[1], detections[1]), <<0, 1>>)
    /\ all_tracks[2].detections[1].label = detections[1].label
    /\ ~too_far(all_tracks[2], detections[1], tracking_params)

\* the detections of the step are built from the predictions of the frame
\* record at the positions Kept, in their order, and from no other
BuiltAre(Kept) ==
    /\ Len(detections') = Cardinality(Kept)
    /\ \A i \in Kept :
           LET d == detections'[Cardinality({j \in Kept : j <= i})]
           IN  /\ d.box = SubSeq(image_results'.boxes[i], 1, 4)
               /\ d.score = image_results'.boxes[i][5]
               /\ d.label = image_results'.labels[i]
               /\ d.mask = image_results'.masks[i].mask
               /\ d.timestamp = timestamp

\* C25 as stated: a detection is excluded from matching only when its score
\* is below score_continue_min; a prediction whose score equals
\* score_continue_min is built into a Detection and offered to the matcher.
C25_BuiltAtOrAboveThreshold ==
    [][FrameStep =>
        BuiltAre({i \in 1..Len(image_results'.boxes) :
            image_results'.boxes[i][5]
                >= tracking_params.score_continue_min})]_vars

\* C25, amended: a detection is excluded from matching when its score is
\* at or below score_continue_min; the predictions whose score is above
\* score_continue_min, and no others, are built into Detections and
\* offered to the matcher.
C25_BuiltAboveThreshold ==
    [][FrameStep =>
        BuiltAre({i \in 1..Len(image_results'.boxes) :
            image_results'.boxes[i][5]
                > tracking_params.score_continue_min})]_vars

\* a frame with a prediction whose score equals score_continue_min and one
\* above it (and below score_init_min): one detection was built, and it
\* was matched to the track of an earlier frame
C25_Witness ==
    /\ pc = "loop"
    /\ Len(image_results.boxes) = 2
    /\ \E i, j \in 1..2 :
           /\ image_results.boxes[i][5] = tracking_params.score_continue_min
           /\ image_results.boxes[j][5] > tracking_params.score_continue_min
           /\ image_results.boxes[j][5] < tracking_params.score_init_min
           /\ Len(detections) = 1
           /\ detections[1].score = image_results.boxes[j][5]
           /\ matched_tracks[1] # None

\* stage 1 keeps the detection d as a candidate of a track whose last
\* detection is last
KeptByStage1(last, d) ==
    LET T == <<[Track(0) EXCEPT !.detections = <<last>>]>>
        candidates == Stage1(T, <<1>>, <<d>>, tracking_params,
                             [id \in {0} |-> CandList(<<1>>)], 1)
    IN  candidates[0] = CandList(<<1>>)

\* the detections the program holds: those of the tracks and of the frame
HeldDetections ==
    UNION {Range(all_tracks[r].detections) : r \in 1..Len(all_tracks)}
        \cup Range(detections)

\* C26: the area-ratio gate is symmetric: for all detections of mask areas
\* a, b > 0 and every threshold area_ratio, stage 1 keeps the detection of
\* area a for a track whose last area is b if and only if it keeps the
\* detection of area b for a track whose last area is a.
C26_AreaGateSymmetric ==
    \A d, e \in HeldDetections :
        (compute_area(d) > 0 /\ compute_area(e) > 0)
            => (KeptByStage1(e, d) <=> KeptByStage1(d, e))

\* a frame after which the program holds detections of areas 1, 3 and 4
\* under the default threshold: 3 and 4 pass the gate in both directions
\* (the detection of area 4 went to the track of area 3), 1 and 4 in none
C26_Witness ==
    /\ pc = "loop"
    /\ tracking_params.area_ratio = <<1, 2>>
    /\ \E i, j \in 1..Len(detections) :
           /\ compute_area(detections[i]) = 4
           /\ compute_area(detections[j]) = 1
           /\ matched_tracks[i] # None
           /\ matched_tracks[j] = None
           /\ compute_area(all_tracks[matched_tracks[i]].detections[1]) = 3
           /\ KeptByStage1(detections[i],
                           all_tracks[matched_tracks[i]].detections[1])
           /\ ~KeptByStage1(detections[i], detections[j])
           /\ ~KeptByStage1(detections[j], detections[i])

\* C27: with area_ratio = 0 the area check is disabled: stage 1 removes no
\* candidate, so every detection offered to a pass, whatever its mask
\* area, is a candidate of every track of the pass when stage 2 starts
\* (stated for the tracks whose last mask is not empty; the track with an
\* empty last mask is the case of C8).
C27_ZeroRatioKeepsAll ==
    [][(pc = "loop" /\ pc' # "done" /\ NumPasses > 0
            /\ tracking_params.area_ratio[1] = 0) =>
        \A tracks \in {PassTracks(1)} :
        \A st0 \in {after_stage1(all_tracks, tracks, detections',
                                  tracking_params)} :
            \A n \in 1..Len(tracks) :
                compute_area(Last(all_tracks[tracks[n]].detections)) > 0 =>
                    Range(st0.candidates[all_tracks[tracks[n]].id].items)
                        = 1..Len(detections')]_vars

\* the active set holds no track twice, and only tracks of the result list
ActiveSetSound ==
    /\ \A a, b \in 1..Len(current_tracks) :
           a # b => current_tracks[a] # current_tracks[b]
    /\ Range(current_tracks) \subseteq 1..Len(all_tracks)

\* C29: at the start of every frame the active set holds no track twice
\* and every active track is in the result list; every track that
\* match_detections returns for the frame is a member of the active set it
\* was given, and a detection is appended only to an active track or to a
\* track born in the frame.
C29_ActiveSet ==
    [][/\ ActiveSetSound
       /\ ActiveSetSound'
       /\ FrameStep =>
              /\ \A i \in 1..Len(matched_tracks') :
                     matched_tracks'[i] # None
                         => matched_tracks'[i] \in Range(current_tracks)
              /\ \A r \in 1..Len(all_tracks) :
                     all_tracks'[r] # all_tracks[r]
                         => r \in Range(current_tracks)]_vars

\* a frame in which a detection went to an active track while the result
\* list held a track retired in an earlier frame that the detection passes
\* every gate against
C29_Witness ==
    /\ pc = "loop"
    /\ \E r \in 1..Len(all_tracks), i \in 1..Len(detections) :
           /\ r \notin Range(current_tracks)
           /\ last_timestamp(all_tracks[r]) < timestamp - 2
           /\ matched_tracks[i] \in Range(current_tracks)
           /\ passes_gates(all_tracks[r], detections[i], tracking_params)

====
